---- MODULE Spec2Model ----
(***************************************************************************)
(* Model of class Puzzle of examples/sudoku/src/entity.h: the grid of      *)
(* candidate sets built by the constructor and the single mutator          *)
(* setValue(row, col, value).                                              *)
(***************************************************************************)
EXTENDS Integers, FiniteSets

VARIABLES
    size,   \* the constructor's argument; grid.size() ever after
    grid,   \* Puzzle::grid : row index -> column index -> Options (a set of int)
    last,   \* how the latest call of setValue ended, and what it was called with
    sol     \* the complete valid solutions every assignment so far agrees with
            \* (empty when no solution is followed)

vars == <<size, grid, last, sol>>

\* Largest size a Puzzle is constructed with.
MaxN == 2

\* The indices of a vector of n elements.
Index(n) == 0 .. (n - 1)

\* Arguments setValue is called with: every index of the grid and the one
\* past the end; every value of the grid, the one below and the one above.
Rows(n) == 0 .. n
Cols(n) == 0 .. n
Values(n) == 0 .. (n + 1)

\* Puzzle::Puzzle, first loop: defaultData = {1, ..., size}.
DefaultData(n) == 1 .. n

\* Puzzle::Puzzle, second loop: size rows of size cells, each defaultData.
NewGrid(n) == [i \in Index(n) |-> [j \in Index(n) |-> DefaultData(n)]]

\* *cell.begin(): the least element of an ordered std::set.
Begin(cell) == CHOOSE x \in cell : \A y \in cell : x <= y

\* EraseCell without its test for a cell that is exactly {value}.
EraseCellNoSkip(cell, value) == cell \ {value}

\* The body of the range-for of setValue on one cell: a cell that is exactly
\* {value} is skipped, any other cell has value erased.
EraseCell(cell, value) ==
    IF Cardinality(cell) = 1 /\ Begin(cell) = value
    THEN cell
    ELSE cell \ {value}

\* The range-for of setValue over a whole row.
EraseRow(cells, value) == [j \in DOMAIN cells |-> EraseCell(cells[j], value)]

\* grid[row][col] = Options({value}).
Store(g, row, col, value) == [g EXCEPT ![row][col] = {value}]

\* SetValueGrid with the range-for running over every row of the grid.
SetValueGridAllRows(g, row, col, value) ==
    LET stored == Store(g, row, col, value)
    IN  [r \in DOMAIN stored |-> EraseRow(stored[r], value)]

\* SetValueGrid with value erased from every cell of the row first and the
\* store made last.
SetValueGridStoreLast(g, row, col, value) ==
    Store([g EXCEPT ![row] = [j \in DOMAIN g[row] |-> g[row][j] \ {value}]],
          row, col, value)

\* The grid setValue leaves when value, row and col are all in range:
\* the store, then the range-for over grid[row].
SetValueGrid(g, row, col, value) ==
    LET stored == Store(g, row, col, value)
    IN  [stored EXCEPT ![row] = EraseRow(stored[row], value)]

\* grid.size().
GridSize(g) == Cardinality(DOMAIN g)

\* The guard of setValue's throw: (value <= 0) || (value > grid.size()).
\* value is an int and grid.size() a size_t; the left disjunct keeps every
\* value that would wrap in the conversion away from the comparison.
BadValue(g, value) == (value <= 0) \/ (value > GridSize(g))

\* grid[row][col] names a cell of the grid: operator[] checks nothing.
InBounds(g, row, col) == row \in DOMAIN g /\ col \in DOMAIN g[row]

\* The grids an out-of-bounds setValue can leave when it returns at all: the
\* store through grid[row][col] lands outside every cell or on any one cell,
\* and the range-for runs over grid[row] when that row exists.
OverrunGrids(g, row, col, value) ==
    LET Loop(h) == IF row \in DOMAIN h
                   THEN [h EXCEPT ![row] = EraseRow(h[row], value)]
                   ELSE h
    IN  {Loop(g)} \cup
        {Loop(Store(g, r, c, value)) : r \in DOMAIN g, c \in DOMAIN g}

\* The side of a box of an n x n puzzle; 0 when n is no perfect square.
BoxSide(n) ==
    IF \E s \in 1 .. n : s * s = n
    THEN CHOOSE s \in 1 .. n : s * s = n
    ELSE 0

\* Cells (r1, c1) and (r2, c2) lie in one box.
SameBox(n, r1, c1, r2, c2) ==
    /\ BoxSide(n) > 0
    /\ r1 \div BoxSide(n) = r2 \div BoxSide(n)
    /\ c1 \div BoxSide(n) = c2 \div BoxSide(n)

\* The complete valid solutions of the n x n puzzle: every row, column and
\* box holds each value of 1 .. n once.
Solutions(n) ==
    LET RowPerms == {p \in [Index(n) -> 1 .. n] :
                        \A a, b \in Index(n) : a # b => p[a] # p[b]}
    IN  {s \in [Index(n) -> RowPerms] :
            \A r1, r2, c1, c2 \in Index(n) :
                (<<r1, c1>> # <<r2, c2>> /\ (c1 = c2 \/ SameBox(n, r1, c1, r2, c2)))
                    => s[r1][c1] # s[r2][c2]}

NoCall == [outcome |-> "none"]

Init ==
    /\ size \in 0 .. MaxN
    /\ grid = NewGrid(size)
    /\ last = NoCall
    /\ sol = {}

\* As Init, with every solution of the puzzle followed from the start.
InitSol ==
    /\ size \in 0 .. MaxN
    /\ grid = NewGrid(size)
    /\ last = NoCall
    /\ sol = Solutions(size)

\* The execution is still defined: no call has crashed or gone out of bounds.
Running == last.outcome \in {"none", "returned", "threw"}

\* setValue throws std::invalid_argument("Bad value <value>") before it
\* touches the grid.
SetValueThrow(row, col, value) ==
    /\ Running
    /\ BadValue(grid, value)
    /\ last' = [outcome |-> "threw", value |-> value]
    /\ UNCHANGED <<size, grid, sol>>

\* setValue with value, row and col in range.  last.was is the candidate set
\* the cell held when the call was made.
SetValueOk(row, col, value) ==
    /\ Running
    /\ ~BadValue(grid, value)
    /\ InBounds(grid, row, col)
    /\ grid' = SetValueGrid(grid, row, col, value)
    /\ last' = [outcome |-> "returned", row |-> row, col |-> col,
                value |-> value, was |-> grid[row][col]]
    /\ sol' = {s \in sol : s[row][col] = value}
    /\ UNCHANGED size

\* setValue with value in range and row or col out of range: undefined
\* behaviour.  The call faults, or returns having written out of bounds; the
\* execution is followed no further.
SetValueOutOfBounds(row, col, value) ==
    /\ Running
    /\ ~BadValue(grid, value)
    /\ ~InBounds(grid, row, col)
    /\ \E outcome \in {"crashed", "overrun"} :
        /\ grid' \in (IF outcome = "crashed"
                      THEN {grid}
                      ELSE OverrunGrids(grid, row, col, value))
        /\ last' = [outcome |-> outcome, row |-> row, col |-> col, value |-> value]
    /\ UNCHANGED <<size, sol>>

Next ==
    \/ \E row \in Rows(size), col \in Cols(size), value \in Values(size) :
            SetValueThrow(row, col, value)
    \/ \E row \in Rows(size), col \in Cols(size), value \in Values(size) :
            SetValueOk(row, col, value)
    \/ \E row \in Rows(size), col \in Cols(size), value \in Values(size) :
            SetValueOutOfBounds(row, col, value)

Spec == Init /\ [][Next]_vars

\* The program called with a solution in mind.
SpecSol == InitSol /\ [][Next]_vars

(***************************************************************************)
(* Properties of setValue.                                                 *)
(***************************************************************************)

\* The latest call had value, row and col in range and returned.
Returned == last.outcome = "returned"

\* The step is a call of setValue that returned normally.
ReturnedStep == last'.outcome = "returned"

\* The cells of the grid.
Cells == (DOMAIN grid) \X (DOMAIN grid)

\* C1: after setValue(row, col, value) returns normally, the candidate set
\* of cell (row, col) is exactly {value}.
C1_AssignedCellIsValue ==
    Returned => grid[last.row][last.col] = {last.value}

\* C1 witness: a call returned on a cell that held something else.
C1_Witness ==
    /\ Returned
    /\ last.was # {last.value}
    /\ grid[last.row][last.col] = {last.value}

\* What the latest call was called with is out of range.
OutOfRangeCall(l) ==
    IF l.outcome = "threw"
    THEN BadValue(grid, l.value)
    ELSE /\ l.outcome # "none"
         /\ (BadValue(grid, l.value) \/ ~InBounds(grid, l.row, l.col))

\* C2: a call of setValue with row or col outside [0,N) or value outside
\* [1,N] fails with an error and leaves every cell of the grid as it was.
C2_OutOfRangeRejected ==
    [][OutOfRangeCall(last') => (last'.outcome = "threw" /\ grid' = grid)]_vars

\* C3: setValue(row, col, value) on a cell that is already {value} leaves
\* the whole grid unchanged.
C3_Idempotent ==
    [][(ReturnedStep /\ last'.was = {last'.value}) => grid' = grid]_vars

\* C3 witness: setValue returned on a cell that already was {value}, in a
\* row with other cells.
C3_Witness ==
    /\ Returned
    /\ last.was = {last.value}
    /\ size >= 2

\* C4: a valid setValue(row, col, value) leaves every cell other than
\* (row, col) as it was.
C4_NoPropagation ==
    [][ReturnedStep =>
        \A rc \in Cells :
            rc # <<last'.row, last'.col>> => grid'[rc[1]][rc[2]] = grid[rc[1]][rc[2]]]_vars

\* C4 as amended: a valid setValue(row, col, value) leaves every cell outside
\* row `row` as it was; every other cell of row `row` is left without value,
\* and otherwise as it was, unless it was exactly {value}, and then it is
\* unchanged.
C4_OnlyRowPeersLoseValue ==
    [][ReturnedStep =>
        \A rc \in Cells :
            rc # <<last'.row, last'.col>> =>
                grid'[rc[1]][rc[2]] =
                    IF rc[1] = last'.row /\ grid[rc[1]][rc[2]] # {last'.value}
                    THEN grid[rc[1]][rc[2]] \ {last'.value}
                    ELSE grid[rc[1]][rc[2]]]_vars

\* C4 witness: after a valid call another cell of the row has lost value and
\* the cell below or above in the column still has it.
C4_Witness ==
    /\ Returned
    /\ \E c \in DOMAIN grid : c # last.col /\ last.value \notin grid[last.row][c]
    /\ \E r \in DOMAIN grid : r # last.row /\ last.value \in grid[r][last.col]
                              /\ Cardinality(grid[r][last.col]) > 1

\* C5: a valid setValue leaves no cell of the grid, the assigned cell
\* included, with more candidates than it had.
C5_MonotonicShrink ==
    [][ReturnedStep =>
        \A rc \in Cells :
            Cardinality(grid'[rc[1]][rc[2]]) <= Cardinality(grid[rc[1]][rc[2]])]_vars

\* C5 witness: a cell that had been fixed to one value was assigned another.
C5_Witness ==
    /\ Returned
    /\ Cardinality(last.was) = 1
    /\ last.was # {last.value}

\* C6: after any sequence of assignments that each give a cell its value in
\* a complete valid solution, every cell still has its value of that
\* solution among its candidates.
C6_SolutionKept ==
    Running => \A s \in sol : \A rc \in Cells : s[rc[1]][rc[2]] \in grid[rc[1]][rc[2]]

\* C6 witness: assignments from a solution have fixed every cell of a grid
\* of more than one cell.
C6_Witness ==
    /\ Returned
    /\ size >= 2
    /\ sol # {}
    /\ \A rc \in Cells : Cardinality(grid[rc[1]][rc[2]]) = 1

\* C7: no sequence of completed assignments leaves two cells of one row
\* fixed to the same value.
C7_NoDuplicateInRow ==
    Running =>
        \A r, c1, c2 \in DOMAIN grid :
            (c1 # c2 /\ Cardinality(grid[r][c1]) = 1) => grid[r][c1] # grid[r][c2]

\* C8: after setValue(row, col, V) returns normally, V is a candidate of no
\* other cell of row `row`.
C8_RowEliminationComplete ==
    Returned =>
        \A c \in DOMAIN grid : c # last.col => last.value \notin grid[last.row][c]

\* C9: after setValue(row, col, V) returns normally, V is a candidate of no
\* other cell of the column or of the box of (row, col).
C9_ColumnAndBoxElimination ==
    Returned =>
        \A rc \in Cells :
            (/\ rc # <<last.row, last.col>>
             /\ \/ rc[2] = last.col
                \/ SameBox(size, rc[1], rc[2], last.row, last.col))
                => last.value \notin grid[rc[1]][rc[2]]

\* C10: in a grid of size at least 1, after any sequence of calls of
\* setValue that returned or threw, every cell has a candidate.
C10_NoEmptyCell ==
    (Running /\ size >= 1) => \A rc \in Cells : grid[rc[1]][rc[2]] # {}

\* C10 witness: after conflicting assignments, one of them rejected since,
\* two cells of a row are fixed to the same value.
C10_Witness ==
    /\ last.outcome = "threw"
    /\ \E r, c1, c2 \in DOMAIN grid :
        c1 # c2 /\ Cardinality(grid[r][c1]) = 1 /\ grid[r][c1] = grid[r][c2]
====
